---------------------------- MODULE Spec2Model ----------------------------
(***************************************************************************)
(* The medication cabinet of the AI health coach frontend: the             *)
(* useMedications hook (local view, error, loading, overlapping fetches,   *)
(* optimistic save/delete), the ChatKit panel's client-tool handler with   *)
(* its per-thread processed-name set, and the session-start reset of Home. *)
(*                                                                         *)
(* The sources hold two revisions of the application:                      *)
(*   "widget"  : Home.tsx 95-182, ChatKitPanel.tsx, useMedications.ts      *)
(*   "cabinet" : Home.tsx 1-93, the panel of src/unnamed/part_000, and a   *)
(*               hook exposing refreshMedications / clearAllMedications    *)
(*               whose file is not among the sources.                      *)
(* The variable rev says which revision is running; it never changes.  Spec *)
(* is the widget revision and SpecCabinet the cabinet revision.            *)
(*                                                                         *)
(* Strings that are normalised (medication names) are sequences of         *)
(* one-character strings, so that trim() and replace(/\s+/g, " ") are      *)
(* computed and not assumed.                                               *)
(***************************************************************************)
EXTENDS Integers, Sequences, FiniteSets, TLC

VARIABLES
    rev,                  \* which revision of Home / panel / hook is running
    mounted,              \* Home's effects have run
    medications,          \* useMedications: the local view (sequence of records)
    error,                \* useMedications: error state (Null or a message)
    loading,              \* useMedications: loading flag
    fetches,              \* fetchMedications calls in flight, in start order
    processedMedications, \* ChatKitPanel: useRef(new Set<string>())
    scheme,               \* colour scheme held by Home's parent
    chatKey,              \* Home (cabinet): key of the ChatKitPanel
    resetPc,              \* Home (cabinet): position of onBrowserRefresh
    store,                \* backend: the in-memory medication store
    clock,                \* logical time, read by new Date() / now()
    last,                 \* history: the last event and what it did
    optimistic,           \* history: names in the view put there by a save
    freshSinceReset       \* history: a fetch started after the reset has returned

vars == << rev, mounted, medications, error, loading, fetches,
           processedMedications, scheme, chatKey, resetPc, store, clock,
           last, optimistic, freshSinceReset >>

-----------------------------------------------------------------------------
(* Bounds                                                                  *)

\* Most fetchMedications calls in flight at once.
MaxInFlight == 2
\* Most records ever created (client and server together share the clock).
MaxClock == 2

-----------------------------------------------------------------------------
(* Values                                                                  *)

Null == "null"

\* A parameter bag that carries neither medication_name nor theme.
OtherParams == [city |-> "x"]

\* What \s matches among the characters used.
WhiteSpace == {" ", "\t"}

\* medication_name arguments the agent may send (besides leaving it out).
RawInputs ==
    { <<>>,
      <<" ">>,
      <<"a", " ", "b">>,
      <<" ", "a", "\t", " ", "b">> }

\* Names the pharmacist agent may write to the backend store.
StoreInputs == { <<"c">>, <<"a", " ", "b">>, <<"a", " ", " ", "b", " ">> }

Themes == {"light", "dark"}

-----------------------------------------------------------------------------
(* String functions                                                        *)

RECURSIVE trimStart(_)
trimStart(s) ==
    IF s = <<>> THEN s
    ELSE IF Head(s) \in WhiteSpace THEN trimStart(Tail(s)) ELSE s

RECURSIVE trimEnd(_)
trimEnd(s) ==
    IF s = <<>> THEN s
    ELSE IF s[Len(s)] \in WhiteSpace THEN trimEnd(SubSeq(s, 1, Len(s) - 1)) ELSE s

\* String.prototype.trim
trim(s) == trimEnd(trimStart(s))

\* name.replace(/\s+/g, " "): every maximal whitespace run becomes one space.
RECURSIVE collapse(_)
collapse(s) ==
    IF s = <<>> THEN s
    ELSE IF Head(s) \in WhiteSpace THEN <<" ">> \o collapse(trimStart(s))
    ELSE <<Head(s)>> \o collapse(Tail(s))

\* Mutant: the name is trimmed but its whitespace runs are kept.
normalizeTrimming(s) == trim(s)

\* name.replace(/\s+/g, " ").trim()
normalize(s) == trim(collapse(s))

\* String(invocation.params.medication_name ?? "")
nameOf(params) ==
    IF "medication_name" \in DOMAIN params THEN params.medication_name ELSE <<>>

\* invocation.params.theme (undefined when absent)
themeOf(params) ==
    IF "theme" \in DOMAIN params THEN params.theme ELSE "undefined"

Names(meds) == { meds[i].name : i \in DOMAIN meds }


NormalNames == { normalize(r) : r \in RawInputs \cup StoreInputs } \ { <<>> }

\* The record_medication invocations that carry a non-empty medication_name.
RecordInvocations ==
    [name : {"record_medication"},
     params : [medication_name : RawInputs \ { <<>> }]]

\* Tool invocations {name, params} handed to onClientTool.
Invocations ==
    [name : {"record_medication"}, params : [medication_name : RawInputs]]
    \cup [name : {"switch_theme"}, params : [theme : Themes \cup {"blue"}]]
    \cup [name : {"record_medication", "switch_theme", "get_weather"},
          params : {OtherParams}]

\* medicationName arguments of a delete action.
DeleteInputs == NormalNames \cup { <<" ", "a", "\t", " ", "b">> }

\* "no invocation": the inv field of events that are not tool invocations.
NoInv == [name |-> "none", params |-> OtherParams]

Ev(op, inv, success, issued, note) ==
    [op |-> op, tool |-> inv.name, success |-> success, issued |-> issued,
     note |-> note]

\* What every event outside the hook and the panel leaves in `last`.
Outside == Ev("outside", NoInv, TRUE, <<>>, Null)

-----------------------------------------------------------------------------
(* useMedications                                                          *)

\* err.message of a failed fetch.
errorMessage(resp) ==
    IF resp.kind = "notOk"
    THEN "Failed to fetch medications: Internal Server Error"
    ELSE "Failed to fetch"

\* response.ok
responseOk(resp) == resp.kind \in {"ok", "okNoField"}

\* data.medications || []
responseMedications(resp) ==
    IF resp.kind = "ok" THEN resp.medications ELSE <<>>

\* Mutant: the response is merged into the view instead of replacing it.
settleMedicationsMerging(resp, current) ==
    IF responseOk(resp)
    THEN responseMedications(resp)
           \o SelectSeq(current, LAMBDA m : m.name \notin Names(responseMedications(resp)))
    ELSE current

\* Mutant: a failure clears the view.
settleMedicationsClearing(resp, current) ==
    IF responseOk(resp) THEN responseMedications(resp) ELSE <<>>

\* Mutant: a response without the medications field leaves the view alone.
settleMedicationsSkipping(resp, current) ==
    IF resp.kind = "ok" THEN resp.medications ELSE current

\* fetchMedications after its awaits: the try body, or the catch, on `current`.
settleMedications(resp, current) ==
    IF responseOk(resp) THEN responseMedications(resp) ELSE current

settleError(resp, current) ==
    IF responseOk(resp) THEN current ELSE errorMessage(resp)

\* finally { setLoading(false) }
settleLoading(resp, current) == FALSE

\* Mutant: the updater appends without looking for the name.
optimisticAddAlways(current, name, now) ==
    Append(current, [name |-> name, createdAt |-> now])

\* The updater of the "save" branch.
optimisticAdd(current, name, now) ==
    IF \E i \in DOMAIN current : current[i].name = name
    THEN current
    ELSE Append(current, [name |-> name, createdAt |-> now])

\* Mutant: the name is normalized before it is compared.
optimisticRemoveNormalizing(current, medicationName) ==
    SelectSeq(current, LAMBDA medication : medication.name # normalize(medicationName))

\* The updater of the "delete" branch.
optimisticRemove(current, medicationName) ==
    SelectSeq(current, LAMBDA medication : medication.name # medicationName)

\* performAction(action) applied to the view `current` at time `now`.
performAction(action, current, now) ==
    IF action.type = "save"
    THEN LET name == trim(action.medicationName)
         IN  IF name = <<>> THEN current ELSE optimisticAdd(current, name, now)
    ELSE IF action.type = "delete"
    THEN optimisticRemove(current, action.medicationName)
    ELSE current

\* All the actions of `issued`, in order.
RECURSIVE performAll(_, _, _)
performAll(issued, current, now) ==
    IF issued = <<>> THEN current
    ELSE performAll(Tail(issued), performAction(Head(issued), current, now), now)

-----------------------------------------------------------------------------
(* ChatKitPanel: onClientTool, as a function of the invocation and the     *)
(* processed set.  It returns the result handed back to ChatKit, the new   *)
(* processed set, the widget actions issued and the theme requests made.   *)

Handled(success, processed, issued, themes) ==
    [success |-> success, processed |-> processed, issued |-> issued, themes |-> themes]

\* The dedup key of a record_medication invocation.
processedKey(name) == name

\* Mutant: the fall-through result reports success.
onClientToolWidgetLenient(invocation, processed) ==
    IF invocation.name = "switch_theme"
    THEN LET requested == themeOf(invocation.params)
         IN  IF requested = "light" \/ requested = "dark"
             THEN Handled(TRUE, processed, <<>>, <<requested>>)
             ELSE Handled(FALSE, processed, <<>>, <<>>)
    ELSE IF invocation.name = "record_medication"
    THEN LET name == nameOf(invocation.params)
         IN  IF name = <<>> \/ name \in processed
             THEN Handled(TRUE, processed, <<>>, <<>>)
             ELSE Handled(TRUE, processed \cup {name},
                          << [type |-> "save", medicationName |-> normalize(name)] >>,
                          <<>>)
    ELSE Handled(TRUE, processed, <<>>, <<>>)

\* Mutant: the first occurrence is marked processed but its save action is
\* left to a later invocation that never comes.
onClientToolWidgetDeferring(invocation, processed) ==
    IF invocation.name = "switch_theme"
    THEN LET requested == themeOf(invocation.params)
         IN  IF requested = "light" \/ requested = "dark"
             THEN Handled(TRUE, processed, <<>>, <<requested>>)
             ELSE Handled(FALSE, processed, <<>>, <<>>)
    ELSE IF invocation.name = "record_medication"
    THEN LET name == nameOf(invocation.params)
         IN  IF name = <<>> \/ name \in processed
             THEN Handled(TRUE, processed, <<>>, <<>>)
             ELSE Handled(TRUE, processed \cup {name}, <<>>, <<>>)
    ELSE Handled(FALSE, processed, <<>>, <<>>)

\* Mutant: the name is not recorded as processed.
onClientToolWidgetForgetful(invocation, processed) ==
    IF invocation.name = "switch_theme"
    THEN LET requested == themeOf(invocation.params)
         IN  IF requested = "light" \/ requested = "dark"
             THEN Handled(TRUE, processed, <<>>, <<requested>>)
             ELSE Handled(FALSE, processed, <<>>, <<>>)
    ELSE IF invocation.name = "record_medication"
    THEN LET name == nameOf(invocation.params)
         IN  IF name = <<>> \/ name \in processed
             THEN Handled(TRUE, processed, <<>>, <<>>)
             ELSE Handled(TRUE, processed,
                          << [type |-> "save", medicationName |-> normalize(name)] >>,
                          <<>>)
    ELSE Handled(FALSE, processed, <<>>, <<>>)

\* ChatKitPanel.tsx
onClientToolWidget(invocation, processed) ==
    IF invocation.name = "switch_theme"
    THEN LET requested == themeOf(invocation.params)
         IN  IF requested = "light" \/ requested = "dark"
             THEN Handled(TRUE, processed, <<>>, <<requested>>)
             ELSE Handled(FALSE, processed, <<>>, <<>>)
    ELSE IF invocation.name = "record_medication"
    THEN LET name == nameOf(invocation.params)
         IN  IF name = <<>> \/ processedKey(name) \in processed
             THEN Handled(TRUE, processed, <<>>, <<>>)
             ELSE Handled(TRUE, processed \cup {processedKey(name)},
                          << [type |-> "save", medicationName |-> normalize(name)] >>,
                          <<>>)
    ELSE Handled(FALSE, processed, <<>>, <<>>)

\* Mutant: any theme that is given is requested.
onClientToolCabinetLenient(invocation, processed) ==
    IF invocation.name # "switch_theme"
    THEN Handled(FALSE, processed, <<>>, <<>>)
    ELSE LET requested == themeOf(invocation.params)
         IN  IF requested = "undefined"
             THEN Handled(FALSE, processed, <<>>, <<>>)
             ELSE Handled(TRUE, processed, <<>>, <<requested>>)

\* src/unnamed/part_000
onClientToolCabinet(invocation, processed) ==
    IF invocation.name # "switch_theme"
    THEN Handled(FALSE, processed, <<>>, <<>>)
    ELSE LET requested == themeOf(invocation.params)
         IN  IF requested # "light" /\ requested # "dark"
             THEN Handled(FALSE, processed, <<>>, <<>>)
             ELSE Handled(TRUE, processed, <<>>, <<requested>>)

onClientTool(invocation, processed) ==
    IF rev = "widget"
    THEN onClientToolWidget(invocation, processed)
    ELSE onClientToolCabinet(invocation, processed)

\* Mutant: the thread change keeps the processed set.
onThreadChangeKeeping(processed) == processed

\* onThreadChange
onThreadChange(processed) ==
    IF rev = "widget" THEN {} ELSE processed

-----------------------------------------------------------------------------
(* Backend store (app/medications.py is not among the sources)             *)

\* Mutant: a duplicate write refreshes the record's timestamp.
upsertRefreshing(records, raw, now) ==
    LET name == normalize(raw)
    IN  IF name = <<>> THEN records
        ELSE IF name \in Names(records)
        THEN [i \in DOMAIN records |->
                IF records[i].name = name
                THEN [name |-> name, createdAt |-> now]
                ELSE records[i]]
        ELSE Append(records, [name |-> name, createdAt |-> now])

\* The records after upsert(raw) at time `now`.
upsert(records, raw, now) ==
    LET name == normalize(raw)
    IN  IF name = <<>> \/ name \in Names(records)
        THEN records
        ELSE Append(records, [name |-> name, createdAt |-> now])

\* The record that upsert(raw) returns: the one of that name afterwards.
upsertReturn(records, raw, now) ==
    LET after == upsert(records, raw, now)
    IN  after[CHOOSE i \in DOMAIN after : after[i].name = normalize(raw)]

\* clear()
clear(records) == <<>>

remove(records, raw) ==
    SelectSeq(records, LAMBDA r : r.name # normalize(raw))

-----------------------------------------------------------------------------
(* Initial state: after the first render, before the effects               *)

Constructed ==
    /\ mounted = FALSE
    /\ medications = <<>>
    /\ error = Null
    /\ loading = FALSE
    /\ fetches = <<>>
    /\ processedMedications = {}
    /\ scheme \in Themes
    /\ chatKey = 0
    /\ resetPc = "idle"
    /\ store = <<>>
    /\ clock = 0
    /\ last = Ev("init", NoInv, TRUE, <<>>, Null)
    /\ optimistic = {}
    /\ freshSinceReset = FALSE

\* The widget revision, in the light scheme.
Init == rev = "widget" /\ scheme = "light" /\ Constructed

\* The widget revision, in either scheme.
InitPanel == rev = "widget" /\ Constructed

InitCabinet == rev = "cabinet" /\ Constructed

-----------------------------------------------------------------------------
(* Actions                                                                 *)

ResetOver == resetPc = "done"

\* Mutant: every trigger starts two requests.
startFetchTwice ==
    /\ Len(fetches) < MaxInFlight
    /\ loading' = TRUE
    /\ error' = Null
    /\ fetches' = fetches \o << [phase |-> "sent", listed |-> <<>>,
                                 superseded |-> FALSE, afterReset |-> ResetOver],
                               [phase |-> "sent", listed |-> <<>>,
                                superseded |-> FALSE, afterReset |-> ResetOver] >>

\* fetchMedications up to its first await: a new request in flight.
startFetch ==
    /\ Len(fetches) < MaxInFlight
    /\ loading' = TRUE
    /\ error' = Null
    /\ fetches' = Append(fetches, [phase |-> "sent", listed |-> <<>>,
                                   superseded |-> FALSE, afterReset |-> ResetOver])

\* The effects of the first commit: the hook's mount fetch, then (cabinet)
\* Home's onBrowserRefresh up to its await of clearAllMedications().
Mount ==
    /\ ~mounted
    /\ mounted' = TRUE
    /\ startFetch
    /\ resetPc' = IF rev = "cabinet" THEN "clearing" ELSE "none"
    /\ last' = Ev("mount", NoInv, TRUE, <<>>, Null)
    /\ UNCHANGED << rev, medications, processedMedications, scheme, chatKey,
                    store, clock, optimistic, freshSinceReset >>

\* ChatKit's onResponseEnd: refresh().
ResponseEnd ==
    /\ mounted
    /\ startFetch
    /\ last' = Ev("responseEnd", NoInv, TRUE, <<>>, Null)
    /\ UNCHANGED << rev, mounted, medications, processedMedications, scheme,
                    chatKey, resetPc, store, clock, optimistic,
                    freshSinceReset >>

\* The backend answers GET /medications for request i with its records.
ServerList(i) ==
    /\ fetches[i].phase = "sent"
    /\ fetches' = [fetches EXCEPT ![i].phase = "answered", ![i].listed = store]
    /\ last' = Outside
    /\ UNCHANGED << rev, mounted, medications, error, loading,
                    processedMedications, scheme, chatKey, resetPc, store, clock,
                    optimistic, freshSinceReset >>

\* The requests left in flight once request i has settled; the ones started
\* before it are superseded when it wrote the view.
remaining(i, wrote) ==
    LET mark(j) == [fetches[j] EXCEPT !.superseded = @ \/ (wrote /\ j < i)]
    IN  [j \in 1 .. (Len(fetches) - 1) |-> IF j < i THEN mark(j) ELSE mark(j + 1)]

\* What the client receives for an answered request: the body as listed, a
\* body without the medications field, a non-OK status, or nothing at all
\* (fetch rejects); an unanswered request can only be lost.
Responses(f) ==
    IF f.phase = "answered"
    THEN { [kind |-> "ok", medications |-> f.listed],
           [kind |-> "okNoField"], [kind |-> "notOk"], [kind |-> "netErr"] }
    ELSE { [kind |-> "netErr"] }

\* fetchMedications from the arrival of response `resp` to request i to the
\* end of its finally block.
FetchSettle(i, resp) ==
    /\ medications' = settleMedications(resp, medications)
    /\ error' = settleError(resp, error)
    /\ loading' = settleLoading(resp, loading)
    /\ fetches' = remaining(i, responseOk(resp))
    /\ optimistic' = IF responseOk(resp) THEN {} ELSE optimistic
    /\ freshSinceReset' = (freshSinceReset \/ fetches[i].afterReset)
    /\ last' = Ev(IF responseOk(resp) THEN "fetchOk" ELSE "fetchFail",
                  NoInv, responseOk(resp), <<>>,
                  [kind |-> resp.kind,
                   dropped |-> IF responseOk(resp)
                               THEN optimistic \ Names(responseMedications(resp))
                               ELSE {},
                   kept |-> IF responseOk(resp)
                            THEN optimistic \cap Names(responseMedications(resp))
                            ELSE optimistic])
    /\ UNCHANGED << rev, mounted, processedMedications, scheme, chatKey, resetPc,
                    store, clock >>

\* ChatKit hands a client tool invocation to onClientTool.
ClientTool(invocation) ==
    /\ mounted
    /\ LET r == onClientTool(invocation, processedMedications)
           new == performAll(r.issued, medications, clock)
       IN  /\ (new # medications => clock < MaxClock)
           /\ processedMedications' = r.processed
           /\ medications' = new
           /\ clock' = IF new # medications THEN clock + 1 ELSE clock
           /\ scheme' = IF r.themes # <<>> THEN r.themes[Len(r.themes)] ELSE scheme
           /\ optimistic' = optimistic \cup (Names(new) \ Names(medications))
           /\ last' = Ev("tool", invocation, r.success, r.issued,
                         [appended |-> new # medications,
                          reissue |-> /\ last.op = "threadChange"
                                      /\ nameOf(invocation.params) \in last.note.cleared])
    /\ UNCHANGED << rev, mounted, error, loading, fetches, chatKey, resetPc,
                    store, freshSinceReset >>

\* A consumer of the hook issues performAction({type: "delete", ...}).
Delete(medicationName) ==
    /\ mounted
    /\ rev = "widget"
    /\ medications' = performAction([type |-> "delete", medicationName |-> medicationName],
                                    medications, clock)
    /\ optimistic' = optimistic \ {medicationName}
    /\ last' = Ev("delete", NoInv, TRUE, <<>>,
                  [removed |-> medications' # medications])
    /\ UNCHANGED << rev, mounted, error, loading, fetches, processedMedications,
                    scheme, chatKey, resetPc, store, clock,
                    freshSinceReset >>

\* ChatKit's onThreadChange.
ThreadChange ==
    /\ mounted
    /\ processedMedications' = onThreadChange(processedMedications)
    /\ last' = Ev("threadChange", NoInv, TRUE, <<>>, [cleared |-> processedMedications])
    /\ UNCHANGED << rev, mounted, medications, error, loading, fetches, scheme,
                    chatKey, resetPc, store, clock, optimistic, freshSinceReset >>

\* The backend answers DELETE /medications: store.clear().
ServerClear ==
    /\ resetPc = "clearing"
    /\ store' = clear(store)
    /\ resetPc' = "cleared"
    /\ last' = Outside
    /\ UNCHANGED << rev, mounted, medications, error, loading, fetches,
                    processedMedications, scheme, chatKey, clock, optimistic, freshSinceReset >>

\* clearAllMedications() once the backend has answered: the local clear.
clearAllMedications(current) == <<>>

\* Mutant: onBrowserRefresh does not await clearAllMedications().
ResetFinishEarly ==
    /\ resetPc \in {"clearing", "cleared"}
    /\ medications' = clearAllMedications(medications)
    /\ chatKey' = chatKey + 1
    /\ scheme' = "light"
    /\ resetPc' = "done"
    /\ optimistic' = {}
    /\ last' = Ev("resetFinish", NoInv, TRUE, <<>>, Null)
    /\ UNCHANGED << rev, mounted, error, loading, fetches, processedMedications,
                    store, clock, freshSinceReset >>

\* onBrowserRefresh from the resolution of clearAllMedications() to its end.
ResetFinish ==
    /\ resetPc = "cleared"
    /\ medications' = clearAllMedications(medications)
    /\ chatKey' = chatKey + 1
    /\ scheme' = "light"
    /\ resetPc' = "done"
    /\ optimistic' = {}
    /\ last' = Ev("resetFinish", NoInv, TRUE, <<>>, Null)
    /\ UNCHANGED << rev, mounted, error, loading, fetches, processedMedications,
                    store, clock, freshSinceReset >>

\* The pharmacist agent (of this or of another session) records a medication.
AgentUpsert(raw) ==
    /\ LET new == upsert(store, raw, clock)
       IN  /\ (new # store => clock < MaxClock)
           /\ store' = new
           /\ clock' = IF new # store THEN clock + 1 ELSE clock
           /\ last' = Ev("upsert", NoInv, TRUE, <<>>, [created |-> new # store])
    /\ UNCHANGED << rev, mounted, medications, error, loading, fetches,
                    processedMedications, scheme, chatKey, resetPc, optimistic, freshSinceReset >>

\* DELETE /medications/{medication_name}
AgentRemove(raw) ==
    /\ store' = remove(store, raw)
    /\ last' = Outside
    /\ UNCHANGED << rev, mounted, medications, error, loading, fetches,
                    processedMedications, scheme, chatKey, resetPc, clock,
                    optimistic, freshSinceReset >>

\* Another session starts: its bulk clear, DELETE /medications.
AgentClear ==
    /\ store # <<>>
    /\ store' = clear(store)
    /\ last' = Outside
    /\ UNCHANGED << rev, mounted, medications, error, loading, fetches,
                    processedMedications, scheme, chatKey, resetPc, clock,
                    optimistic, freshSinceReset >>

\* The widget revision against a live backend; the panel receives the
\* record_medication invocations that carry a name.
Next ==
    \/ Mount
    \/ ResponseEnd
    \/ \E i \in DOMAIN fetches : ServerList(i)
    \/ \E i \in DOMAIN fetches : \E resp \in Responses(fetches[i]) : FetchSettle(i, resp)
    \/ \E invocation \in RecordInvocations : ClientTool(invocation)
    \/ \E name \in DeleteInputs : Delete(name)
    \/ ThreadChange
    \/ \E raw \in StoreInputs : AgentUpsert(raw)
    \/ \E raw \in StoreInputs : AgentRemove(raw)

Spec == Init /\ [][Next]_vars

\* The widget revision with every tool invocation, against a backend whose
\* store nobody writes.
NextPanel ==
    \/ Mount
    \/ ResponseEnd
    \/ \E i \in DOMAIN fetches : ServerList(i)
    \/ \E i \in DOMAIN fetches : \E resp \in Responses(fetches[i]) : FetchSettle(i, resp)
    \/ \E invocation \in Invocations : ClientTool(invocation)
    \/ \E name \in DeleteInputs : Delete(name)
    \/ ThreadChange

SpecPanel == InitPanel /\ [][NextPanel]_vars

\* The cabinet revision: the session-start reset, every tool invocation, a
\* live backend.
NextCabinet ==
    \/ Mount
    \/ ResponseEnd
    \/ \E i \in DOMAIN fetches : ServerList(i)
    \/ \E i \in DOMAIN fetches : \E resp \in Responses(fetches[i]) : FetchSettle(i, resp)
    \/ \E invocation \in Invocations : ClientTool(invocation)
    \/ ThreadChange
    \/ ServerClear
    \/ ResetFinish
    \/ \E raw \in StoreInputs : AgentUpsert(raw)
    \/ \E raw \in StoreInputs : AgentRemove(raw)
    \/ AgentClear

SpecCabinet == InitCabinet /\ [][NextCabinet]_vars

-----------------------------------------------------------------------------
(* Properties                                                              *)

\* Request i settles with a successful response.
SettlesOk(i, resp) == FetchSettle(i, resp) /\ responseOk(resp)

\* Request i settles with a failure.
SettlesFailed(i, resp) == FetchSettle(i, resp) /\ ~responseOk(resp)

\* C1: when refresh B, started after refresh A, has just written the view
\* and A's response arrives next, A does not overwrite the view: it stays
\* B's result.
C1_SupersededRefreshDoesNotOverwrite ==
    [][\A i \in DOMAIN fetches : \A resp \in Responses(fetches[i]) :
         (fetches[i].superseded /\ last.op = "fetchOk" /\ FetchSettle(i, resp))
            => medications' = medications]_vars

\* The normalized names of the processed set.
processedNormalized == { normalize(p) : p \in processedMedications }

\* C2: within a thread, a record_medication invocation whose name normalizes
\* to the normalization of an already processed name returns success=true
\* and issues no save action.
C2_NormalizedNameSavedAtMostOnce ==
    [][\A invocation \in RecordInvocations :
         (/\ normalize(nameOf(invocation.params)) \in processedNormalized
          /\ ClientTool(invocation))
            => last'.success /\ last'.issued = <<>>]_vars

\* The record_medication invocations whose name is missing, empty or blank.
BlankInvocations ==
    { invocation \in Invocations :
        /\ invocation.name = "record_medication"
        /\ normalize(nameOf(invocation.params)) = <<>> }

\* C3: a record_medication invocation whose name is missing, empty or blank
\* reports success=false and changes neither the processed set nor the view.
C3_BlankNameFails ==
    [][\A invocation \in BlankInvocations :
         ClientTool(invocation)
            => /\ ~last'.success
               /\ UNCHANGED << processedMedications, medications >>]_vars

\* C4 as stated: a refresh whose response does not list a medication (it was
\* computed before the server held it) and which completes after the
\* medication was optimistically added leaves the medication in the view.
C4_RefreshKeepsOptimisticEntries ==
    [][\A i \in DOMAIN fetches : \A resp \in Responses(fetches[i]) :
         SettlesOk(i, resp) => optimistic \subseteq Names(medications')]_vars

\* C4 (amended): a refresh that completes after a medication was
\* optimistically added keeps it in the view exactly when the refresh fails
\* or its response lists the medication; a response that does not list it
\* removes it.
C4_RefreshKeepsOnlyListedEntries ==
    [][\A i \in DOMAIN fetches : \A resp \in Responses(fetches[i]) :
         FetchSettle(i, resp)
            => \A n \in optimistic :
                 n \in Names(medications')
                    <=> (~responseOk(resp) \/ n \in Names(responseMedications(resp)))]_vars

\* A refresh listed before the server held "a b" has just removed the
\* optimistic "a b" that the server holds by now.
C4_Witness ==
    /\ last.op = "fetchOk"
    /\ last.note.kind = "ok"
    /\ last.note.dropped # {}
    /\ last.note.dropped \subseteq Names(store)

\* C5: once the session-start reset has completed, the view is empty until a
\* refresh started after the reset has returned.
C5_ViewEmptyAfterReset ==
    (resetPc = "done" /\ ~freshSinceReset) => medications = <<>>

\* The record_medication invocations with a non-empty name.
NamedInvocations ==
    { invocation \in Invocations :
        /\ invocation.name = "record_medication"
        /\ nameOf(invocation.params) # <<>> }

\* C6: a thread change empties the processed set, and a record_medication
\* invocation for a non-empty name that is not in the processed set issues
\* the save action for its normalized name.
C6_ThreadChangeResetsDedup ==
    [][/\ ThreadChange => processedMedications' = {}
       /\ \A invocation \in NamedInvocations :
            (/\ nameOf(invocation.params) \notin processedMedications
             /\ ClientTool(invocation))
               => last'.issued =
                    << [type |-> "save",
                        medicationName |-> normalize(nameOf(invocation.params))] >>]_vars

\* A name processed in the previous thread has been saved again right after
\* the thread change.
C6_Witness ==
    /\ last.op = "tool"
    /\ last.note.reissue
    /\ last.issued # <<>>

\* The tool names ChatKitPanel.tsx handles.
Recognized == {"switch_theme", "record_medication"}

\* C7: an invocation of an unrecognized tool returns success=false and
\* changes nothing but the history, in the widget panel (as an action) and
\* in the cabinet panel (as a function), so that what follows is handled as
\* if it had not occurred.
C7_UnknownToolRejected ==
    /\ [][\A invocation \in Invocations :
            (invocation.name \notin Recognized /\ ClientTool(invocation))
               => /\ ~last'.success
                  /\ last'.issued = <<>>
                  /\ UNCHANGED << rev, mounted, medications, error, loading, fetches,
                                  processedMedications, scheme, chatKey, resetPc,
                                  store, clock, optimistic, freshSinceReset >>]_vars
    /\ [](\A invocation \in Invocations :
            invocation.name # "switch_theme"
               => onClientToolCabinet(invocation, processedMedications)
                    = Handled(FALSE, processedMedications, <<>>, <<>>))

\* An unknown tool has just been rejected with a processed set and a theme
\* chosen by earlier invocations in place.
C7_Witness ==
    /\ last.op = "tool"
    /\ last.tool = "get_weather"
    /\ ~last.success
    /\ processedMedications # {}
    /\ medications # <<>>
    /\ scheme = "dark"

\* C8: a refresh that completes successfully makes the view exactly the list
\* of the response, or the empty list when the response has no medications
\* field.
C8_RefreshReplacesView ==
    [][\A i \in DOMAIN fetches : \A resp \in Responses(fetches[i]) :
         SettlesOk(i, resp)
            => medications' = IF "medications" \in DOMAIN resp
                              THEN resp.medications
                              ELSE <<>>]_vars

\* A successful refresh has just dropped an optimistic entry and left the
\* server's other records in the view.
C8_Witness ==
    /\ last.op = "fetchOk"
    /\ last.note.dropped # {}
    /\ medications # <<>>

\* C9: a fetch that fails sets a non-null error message and leaves the view
\* exactly as it was.
C9_FailedFetchKeepsView ==
    [][\A i \in DOMAIN fetches : \A resp \in Responses(fetches[i]) :
         SettlesFailed(i, resp)
            => error' # Null /\ medications' = medications]_vars

\* A fetch has just failed over a non-empty view.
C9_Witness ==
    /\ last.op = "fetchFail"
    /\ error # Null
    /\ medications # <<>>

\* No two records of the view have the same name.
UniqueNames(meds) ==
    \A i, j \in DOMAIN meds : meds[i].name = meds[j].name => i = j

\* The view after a save action for `name` that inserts unless present.
inserted(name) ==
    IF name \in Names(medications)
    THEN medications
    ELSE Append(medications, [name |-> name, createdAt |-> clock])

\* C10 as stated: a save action for a name in the view leaves the view
\* unchanged, any other save action appends one record at the end, and the
\* view never holds two records with the same name.
C10_SaveIsIdempotentInsert ==
    /\ [](UniqueNames(medications))
    /\ [][\A invocation \in RecordInvocations :
            (ClientTool(invocation) /\ last'.issued # <<>>)
               => medications' = inserted(trim(last'.issued[1].medicationName))]_vars

\* C10 (amended): a save action whose name is empty changes nothing; one for
\* a name in the view leaves the view unchanged; any other appends one
\* record at the end; the view never holds two records with the same name.
C10_SaveIsIdempotentInsertOfNames ==
    /\ [](UniqueNames(medications))
    /\ [][\A invocation \in RecordInvocations :
            (ClientTool(invocation) /\ last'.issued # <<>>)
               => LET name == trim(last'.issued[1].medicationName)
                  IN  medications' = IF name = <<>> THEN medications ELSE inserted(name)]_vars

\* A save action has just been issued for a name already in a view of two
\* records, and left it unchanged.
C10_Witness ==
    /\ last.op = "tool"
    /\ last.issued # <<>>
    /\ ~last.note.appended
    /\ Len(medications) = 2
    /\ last.issued[1].medicationName \in Names(medications)

\* C11: a mount and a response-end notification each start exactly one fetch
\* (one more request in flight, the newest, just sent); a tool invocation, a
\* delete action and a thread change leave the requests in flight alone, and
\* no other step adds a request.
C11_FetchStartedOncePerTrigger ==
    [][/\ (Mount \/ ResponseEnd)
          => /\ Len(fetches') = Len(fetches) + 1
             /\ SubSeq(fetches', 1, Len(fetches)) = fetches
             /\ fetches'[Len(fetches')].phase = "sent"
       /\ last'.op \in {"tool", "delete", "threadChange"} => fetches' = fetches
       /\ ~(Mount \/ ResponseEnd) => Len(fetches') <= Len(fetches)]_vars

\* The response-end notification of a turn with a tool invocation has just
\* started the second fetch while the mount fetch is still in flight.
C11_Witness ==
    /\ last.op = "responseEnd"
    /\ Len(fetches) = 2
    /\ processedMedications # {}

\* A non-empty string without leading or trailing whitespace whose only
\* whitespace is single spaces between other characters.
isNormalized(s) ==
    /\ s # <<>>
    /\ Head(s) \notin WhiteSpace
    /\ s[Len(s)] \notin WhiteSpace
    /\ \A i \in DOMAIN s :
         s[i] \in WhiteSpace
            => s[i] = " " /\ (i < Len(s) => s[i + 1] \notin WhiteSpace)

\* C12: every record that a tool invocation adds to the view has a
\* normalized, non-empty name: no leading or trailing whitespace and single
\* spaces for the whitespace runs inside.
C12_ToolRecordsHaveNormalizedNames ==
    [][\A invocation \in Invocations :
         ClientTool(invocation)
            => \A i \in DOMAIN medications' :
                 (i > Len(medications) \/ medications'[i].name \notin Names(medications))
                    => isNormalized(medications'[i].name)]_vars

\* The invocation " a\t b" has just put the record "a b" in the view.
C12_Witness ==
    /\ last.op = "tool"
    /\ last.note.appended
    /\ processedMedications = { <<" ", "a", "\t", " ", "b">> }
    /\ Names(medications) = { <<"a", " ", "b">> }

\* C13: whatever upserts, removes and clears the sessions have issued, the
\* store holds at most one record per normalized name, and an upsert of a
\* name it holds changes nothing and returns the record it held, with the
\* createdAt of its creation.
C13_StoreHoldsOneRecordPerName ==
    /\ [](/\ UniqueNames(store)
          /\ \A i \in DOMAIN store : isNormalized(store[i].name))
    /\ [][\A raw \in StoreInputs :
            (AgentUpsert(raw) /\ normalize(raw) \in Names(store))
               => /\ store' = store
                  /\ \E i \in DOMAIN store : store[i] = upsertReturn(store, raw, clock)]_vars

\* A name the store holds has just been written again while the store held
\* two records: it still holds both, each once.
C13_Witness ==
    /\ last.op = "upsert"
    /\ ~last.note.created
    /\ Len(store) = 2
    /\ store[1].name = <<"a", " ", "b">>

\* `after` is `before` without some of its entries, the others in order.
IsSubsequence(after, before) ==
    \E f \in [DOMAIN after -> DOMAIN before] :
        /\ \A i, j \in DOMAIN after : i < j => f[i] < f[j]
        /\ \A i \in DOMAIN after : after[i] = before[f[i]]

\* C14: a delete action removes from the view exactly the records of the
\* given name and keeps the others in their order; it changes nothing when no
\* record has that name; it starts no request and leaves the error state, the
\* loading flag and the server's store alone.
C14_DeleteRemovesNamedRecordsOnly ==
    [][\A name \in DeleteInputs :
         Delete(name)
            => /\ IsSubsequence(medications', medications)
               /\ name \notin Names(medications')
               /\ Len(medications')
                    = Cardinality({i \in DOMAIN medications : medications[i].name # name})
               /\ (name \notin Names(medications) => medications' = medications)
               /\ UNCHANGED << error, loading, fetches, store >>]_vars

\* A delete action has just removed a record and kept another, with a fetch
\* in flight.
C14_Witness ==
    /\ last.op = "delete"
    /\ last.note.removed
    /\ medications # <<>>
    /\ fetches # <<>>

\* C15: when the handler returns for the first occurrence of a name in a
\* thread, it reports success, the name is marked processed, the save action
\* has been issued and applied to the view, and no fetch was started; so
\* the refresh that the response-end notification of the turn starts next
\* finds the optimistic add in the view.
C15_SavePrecedesResponseEndRefresh ==
    [][/\ \A invocation \in RecordInvocations :
            (/\ nameOf(invocation.params) \notin processedMedications
             /\ ClientTool(invocation))
               => LET name == nameOf(invocation.params)
                  IN  /\ last'.success
                      /\ name \in processedMedications'
                      /\ last'.issued
                           = << [type |-> "save", medicationName |-> normalize(name)] >>
                      /\ normalize(name) # <<>> => normalize(name) \in Names(medications')
                      /\ fetches' = fetches
       /\ (ResponseEnd /\ last.op = "tool" /\ last.issued # <<>>)
            => LET name == trim(last.issued[1].medicationName)
               IN  /\ name # <<>> => name \in Names(medications)
                   /\ medications' = medications
                   /\ fetches'[Len(fetches')].phase = "sent"]_vars

\* The response-end notification has just started a refresh over a view that
\* holds the turn's optimistic add, which no fetch has confirmed yet.
C15_Witness ==
    /\ last.op = "responseEnd"
    /\ processedMedications # {}
    /\ optimistic # {}
    /\ optimistic \subseteq Names(medications)
    /\ store = <<>>

C17_OneSavePerRawNamePerThread ==
    [][/\ \A invocation \in RecordInvocations :
            ClientTool(invocation)
               => LET name == nameOf(invocation.params)
                  IN  /\ name \in processedMedications
                         => /\ last'.issued = <<>>
                            /\ medications' = medications
                      /\ last'.issued # <<>>
                         => /\ Len(last'.issued) = 1
                            /\ name \notin processedMedications
                            /\ name \in processedMedications'
       /\ last'.op # "threadChange"
          => processedMedications \subseteq processedMedications']_vars

\* The invocation "a b" has just been repeated in its thread after its
\* record left the view (deleted, or dropped by a refresh): no save action,
\* and the view stays empty.
C17_Witness ==
    /\ last.op = "tool"
    /\ last.issued = <<>>
    /\ processedMedications = { <<"a", " ", "b">> }
    /\ medications = <<>>
    /\ clock = 1
    /\ store = <<>>

\* The switch_theme invocations: a theme, another value, or none.
ThemeInvocations ==
    { invocation \in Invocations : invocation.name = "switch_theme" }

\* C18: both panels handle a switch_theme invocation alike: for the theme
\* "light" or "dark" they request that theme once and return success=true,
\* for any other value they return success=false and request nothing; the
\* processed set and the view are left as they are.
C18_PanelsAgreeOnSwitchTheme ==
    /\ [](\A invocation \in ThemeInvocations :
            LET requested == themeOf(invocation.params)
                widget == onClientToolWidget(invocation, processedMedications)
                cabinet == onClientToolCabinet(invocation, processedMedications)
            IN  /\ widget = cabinet
                /\ widget = IF requested \in {"light", "dark"}
                            THEN Handled(TRUE, processedMedications, <<>>, <<requested>>)
                            ELSE Handled(FALSE, processedMedications, <<>>, <<>>))
    /\ [][\A invocation \in ThemeInvocations :
            ClientTool(invocation)
               => LET requested == themeOf(invocation.params)
                  IN  /\ last'.success = (requested \in {"light", "dark"})
                      /\ scheme' = IF requested \in {"light", "dark"}
                                   THEN requested ELSE scheme
                      /\ UNCHANGED << processedMedications, medications >>]_vars

\* A switch_theme invocation has just been refused, under the dark theme an
\* earlier one asked for, with names processed and records in the view.
C18_Witness ==
    /\ last.op = "tool"
    /\ last.tool = "switch_theme"
    /\ ~last.success
    /\ scheme = "dark"
    /\ processedMedications # {}
    /\ medications # <<>>

\* C19: the loading flag is true exactly in the states in which a fetch is
\* in flight: true while at least one is, false once all have completed.
C19_LoadingWhileFetchInFlight ==
    loading <=> fetches # <<>>

\* C20, in the case it names: a fetch started after this one has just
\* succeeded and written the view; this one, the last in flight, now fails;
\* the view is the one the successful fetch wrote and nothing is in flight,
\* so the error state is null.
C20_NoErrorOverFetchedView ==
    [][\A i \in DOMAIN fetches : \A resp \in Responses(fetches[i]) :
         (/\ SettlesFailed(i, resp)
          /\ fetches[i].superseded
          /\ last.op = "fetchOk"
          /\ fetches' = <<>>)
            => error' = Null]_vars

=============================================================================
